---- MODULE Spec2Model ----
(***************************************************************************)
(* SemgrepGateway: the scan orchestration of app/services/semgrep_service  *)
(* (scan_code, scan_multiple_files, _run_semgrep, _run_command), the       *)
(* request schemas of app/models and the three scan endpoints of app/main. *)
(*                                                                         *)
(* Contents are modelled by their length, filesystem paths by their list   *)
(* of components, strings produced by the service by the strings           *)
(* themselves.                                                             *)
(***************************************************************************)
EXTENDS Integers, Sequences, FiniteSets, TLC

\* ------------------------------------------------------------------------
\* Configuration (app/config.py, read by get_settings) and the limits of the
\* request schemas (app/models.py)
\* ------------------------------------------------------------------------
semgrep_timeout == 300
max_file_size == 10485760
max_workers == 4
CodeMaxLength == 1000000
BulkMaxContent == 10485760

\* ------------------------------------------------------------------------
\* Bounds of the model
\* ------------------------------------------------------------------------
\* Settings.max_files_per_request and the max_items of BulkScanRequest.files
\* are both 50 in the source; the model keeps them equal and small.
max_files_per_request == 3
BulkMaxItems == 3
NScans == 2          \* overlapping scans in the scenario "overlap"
MaxFiles == 2        \* length of the enumerated bulk file lists
MaxFailStep == 4     \* workspace-preparation steps at which the OS may fail
MaxList == 2         \* length of the lists in the translator's inputs
NPool == 5           \* overlapping requests in the scenario "pool"

\* Python's None, for Optional[str] fields.
NoneStr == "<None>"

Truthy(s) == s # NoneStr /\ s # ""

\* ------------------------------------------------------------------------
\* Paths and the filesystem
\* ------------------------------------------------------------------------
Front(s) == SubSeq(s, 1, Len(s) - 1)

IsPrefix(p, q) == Len(p) <= Len(q) /\ SubSeq(q, 1, Len(p)) = p

\* tempfile.gettempdir()
TmpDir == <<"tmp">>

\* The random names tempfile draws from.
TmpNames == {"t1", "t2", "t3"}

\* Path resolution by the OS: ".." steps to the parent, the root is its own
\* parent (no symbolic links in play).
RECURSIVE Resolve(_)
Resolve(raw) ==
    IF raw = <<>> THEN <<>>
    ELSE LET head == Resolve(Front(raw))
             c == raw[Len(raw)]
         IN  IF c = ".."
             THEN (IF head = <<>> THEN <<>> ELSE Front(head))
             ELSE Append(head, c)

\* A bulk filename: absolute or relative, and its components.
\* [abs |-> FALSE, comps |-> <<>>] is the empty string.
Filename(abs, comps) == [abs |-> abs, comps |-> comps]

\* os.path.join(temp_dir, filename): an absolute second argument discards
\* the first.
join(temp_dir, filename) ==
    IF filename.abs THEN filename.comps ELSE temp_dir \o filename.comps

\* os.path.dirname(file_path); joining "" leaves a trailing separator, whose
\* dirname is the directory itself.
dirname(temp_dir, filename) ==
    IF filename.comps = <<>> THEN join(temp_dir, filename)
    ELSE Front(join(temp_dir, filename))

\* The filesystem: the set of regular files and the set of directories.
Fs(files, dirs) == [files |-> files, dirs |-> dirs]

InitFs == Fs({}, {<<>>, TmpDir})

Exists(fs, p) == p \in fs.files \/ p \in fs.dirs

\* os.makedirs(raw, exist_ok=True): creates every missing prefix in order,
\* raises at the first prefix that is a regular file.
\* Result: [ok, fs, made] with made the directories it created.
RECURSIVE makedirs_from(_, _, _, _)
makedirs_from(fs, raw, i, made) ==
    IF i > Len(raw) THEN [ok |-> TRUE, fs |-> fs, made |-> made]
    ELSE LET p == Resolve(SubSeq(raw, 1, i))
         IN  IF p \in fs.files THEN [ok |-> FALSE, fs |-> fs, made |-> made]
             ELSE IF p \in fs.dirs THEN makedirs_from(fs, raw, i + 1, made)
             ELSE makedirs_from(Fs(fs.files, fs.dirs \cup {p}), raw, i + 1,
                                made \cup {p})

makedirs(fs, raw) == makedirs_from(fs, raw, 1, {})

\* open(raw, 'w'): creates or truncates the file; raises when the path is a
\* directory or its parent is not one.
open_w(fs, raw) ==
    LET p == Resolve(raw)
    IN  IF p \in fs.dirs \/ p = <<>> \/ Front(p) \notin fs.dirs
        THEN [ok |-> FALSE, fs |-> fs, path |-> p]
        ELSE [ok |-> TRUE, fs |-> Fs(fs.files \cup {p}, fs.dirs), path |-> p]

\* shutil.rmtree(temp_dir, ignore_errors=True): removes the tree below
\* temp_dir; when the OS refuses, the error is swallowed and the tree stays.
rmtree(fs, temp_dir, os_ok) ==
    IF os_ok
    THEN Fs({p \in fs.files : ~IsPrefix(temp_dir, p)},
            {p \in fs.dirs : ~IsPrefix(temp_dir, p)})
    ELSE fs

\* os.unlink(temp_file): [ok, fs]; raises when the OS refuses or the file is
\* gone.
unlink(fs, temp_file, os_ok) ==
    IF os_ok /\ temp_file \in fs.files
    THEN [ok |-> TRUE, fs |-> Fs(fs.files \ {temp_file}, fs.dirs)]
    ELSE [ok |-> FALSE, fs |-> fs]

\* ------------------------------------------------------------------------
\* SemgrepService._get_file_extension
\* ------------------------------------------------------------------------
get_file_extension(language) ==
    CASE language = "python" -> "py"
      [] language = "javascript" -> "js"
      [] language = "typescript" -> "ts"
      [] language = "java" -> "java"
      [] language = "go" -> "go"
      [] language = "php" -> "php"
      [] language = "ruby" -> "rb"
      [] language = "c" -> "c"
      [] language = "cpp" -> "cpp"
      [] language = "csharp" -> "cs"
      [] language = "kotlin" -> "kt"
      [] language = "rust" -> "rs"
      [] language = "scala" -> "scala"
      [] language = "swift" -> "swift"
      [] language = "auto" -> "txt"
      [] OTHER -> "txt"

\* ------------------------------------------------------------------------
\* The external tool and the Result Translator (_run_semgrep)
\* ------------------------------------------------------------------------
\* A JSON member as the schema sees it: well typed or not, and its value.
Member(ok, v) == [ok |-> ok, v |-> v]

\* What the tool wrote on stdout:
\*   t = "empty"  nothing;  t = "text"  non-empty text that is not JSON;
\*   t = "json"   a JSON document, an object (obj) with the members named in
\*                keys or another JSON value (array, number, string, null).
Stdout(t, obj, keys, results, errors, stats) ==
    [t |-> t, obj |-> obj, keys |-> keys, results |-> results,
     errors |-> errors, stats |-> stats]

NoMember == Member(TRUE, <<>>)
NoStats == Member(TRUE, {})
EmptyStdout == Stdout("empty", FALSE, {}, NoMember, NoMember, NoStats)
TextStdout == Stdout("text", FALSE, {}, NoMember, NoMember, NoStats)
ScalarStdout == Stdout("json", FALSE, {}, NoMember, NoMember, NoStats)
ObjectStdout(keys, results, errors, stats) ==
    Stdout("json", TRUE, keys,
           IF "results" \in keys THEN results ELSE NoMember,
           IF "errors" \in keys THEN errors ELSE NoMember,
           IF "stats" \in keys THEN stats ELSE NoStats)

\* What _run_command gave: a CompletedProcess, subprocess.TimeoutExpired, or
\* another exception (the executable is missing, ...).
Proc(kind, code, stdout, stderr) ==
    [kind |-> kind, code |-> code, stdout |-> stdout, stderr |-> stderr]

TimeoutProc == Proc("timeout", 0, EmptyStdout, "")
OSErrorProc == Proc("oserror", 0, EmptyStdout, "No such file: semgrep")
Completed(code, stdout, stderr) == Proc("exit", code, stdout, stderr)

ScanResult(findings, errors, stats) ==
    [findings |-> findings, errors |-> errors, stats |-> stats,
     files_scanned |-> <<>>]

\* The argument list built by _run_semgrep.
RECURSIVE ConfigArgs(_)
ConfigArgs(rules) ==
    IF rules = <<>> THEN <<>>
    ELSE <<"--config", rules[1]>> \o ConfigArgs(Tail(rules))

\* rules: [given |-> BOOLEAN, list |-> sequence]; "if rules" is false for None
\* and for the empty list.
NoRules == [given |-> FALSE, list |-> <<>>]
Rules(list) == [given |-> TRUE, list |-> list]

\* Every rule source is appended, none takes precedence.
build_cmd_additive(target, config, rules) ==
    <<"semgrep", "--json", "--no-git-ignore", "--quiet">>
    \o (IF Truthy(config) THEN <<"--config", config>> ELSE <<>>)
    \o (IF rules.given THEN ConfigArgs(rules.list) ELSE <<>>)
    \o (IF ~Truthy(config) /\ rules.list = <<>> THEN <<"--config", "auto">>
        ELSE <<>>)
    \o <<target>>

build_cmd(target, config, rules) ==
    <<"semgrep", "--json", "--no-git-ignore", "--quiet">>
    \o (IF Truthy(config) THEN <<"--config", config>>
        ELSE IF rules.given /\ rules.list # <<>> THEN ConfigArgs(rules.list)
        ELSE <<"--config", "auto">>)
    \o <<target>>

\* json.loads(result.stdout) if result.stdout else {}:
\* [parsed, doc] with doc the document the .get calls read.
EmptyObject == ObjectStdout({}, NoMember, NoMember, NoStats)
ParseFailedObject ==
    ObjectStdout({"results", "errors"}, Member(TRUE, <<>>),
                 Member(TRUE, <<"Failed to parse JSON output">>), NoStats)

load_output_strict(stdout) ==
    IF stdout.t \in {"empty", "text"} THEN ParseFailedObject ELSE stdout

load_output(stdout) ==
    IF stdout.t = "empty" THEN EmptyObject
    ELSE IF stdout.t = "text" THEN ParseFailedObject
    ELSE stdout

\* output.get(key, default)
get(output, key, default) ==
    IF key \in output.keys THEN output[key] ELSE default

\* An except clause that swallows the exception without reporting it.
ExecutionError_silent(msg) == ScanResult(<<>>, <<>>, {})

\* The except Exception clause of _run_semgrep.
ExecutionError(msg) == ScanResult(<<>>, <<"Execution error: " \o msg>>, {})

\* The except subprocess.TimeoutExpired clause of _run_semgrep.
timeout_result_generic == ExecutionError("Command timed out")

timeout_result ==
    ScanResult(<<>>,
               <<"Scan timeout after " \o ToString(semgrep_timeout)
                 \o " seconds">>, {})

\* _run_semgrep, given what _run_command(cmd) gave.
run_semgrep(proc) ==
    IF proc.kind = "timeout" THEN timeout_result
    ELSE IF proc.kind = "oserror" THEN ExecutionError(proc.stderr)
    ELSE IF proc.code = 0 \/ proc.code = 1
    THEN LET output == load_output(proc.stdout)
             results == get(output, "results", Member(TRUE, <<>>))
             errors == get(output, "errors", Member(TRUE, <<>>))
             stats == get(output, "stats", Member(TRUE, {}))
         IN  IF ~output.obj
             THEN ExecutionError("object has no attribute 'get'")
             ELSE IF ~(results.ok /\ errors.ok /\ stats.ok)
             THEN ExecutionError("validation error for ScanResult")
             ELSE ScanResult(results.v, errors.v, stats.v)
    ELSE ScanResult(<<>>, <<"Semgrep error: " \o proc.stderr>>, {})

\* ------------------------------------------------------------------------
\* Requests
\* ------------------------------------------------------------------------
File(filename, content) == [filename |-> filename, content |-> content]

\* entry: the operation the caller invokes, an endpoint of app/main or a
\* method of the service.
Request(entry, code, language, config, rules, files) ==
    [entry |-> entry, code |-> code, language |-> language,
     config |-> config, rules |-> rules, files |-> files]

SingleEntries == {"POST /scan", "scan_code"}
BulkEntries == {"POST /scan/bulk", "POST /scan/upload", "scan_multiple_files"}
Endpoints == {"POST /scan", "POST /scan/bulk", "POST /scan/upload"}
\* The other methods of the service that run the tool.
QueryEntries == {"get_version", "get_available_rules"}
RuleTestEntries == {"test_rule_config"}
\* Methods whose except Exception clause returns a value instead of raising.
NonRaisingEntries == QueryEntries \cup RuleTestEntries

NoRequest == Request("none", 0, "", NoneStr, NoRules, <<>>)

\* ScanRequest.validate_language
SupportedLanguages ==
    {"python", "javascript", "typescript", "java", "go", "php", "ruby", "c",
     "cpp", "csharp", "kotlin", "rust", "scala", "swift", "auto"}

\* ScanRequest: Field constraints and validator.
ScanRequestValid(req) ==
    /\ req.code >= 1 /\ req.code <= CodeMaxLength
    /\ req.language \in SupportedLanguages
    /\ Len(req.rules.list) <= 50

\* BulkScanRequest.validate_files, for one file: the name of the violated
\* rule, "" when none.
validate_file(f) ==
    IF ~f.filename.abs /\ f.filename.comps = <<>> THEN "name"
    ELSE IF f.content > BulkMaxContent THEN "size"
    ELSE ""

\* BulkScanRequest: Field constraints, then validate_files.
BulkScanRequestError(req) ==
    IF Len(req.files) < 1 \/ Len(req.files) > BulkMaxItems THEN "count"
    ELSE IF \E i \in 1..Len(req.files) : validate_file(req.files[i]) # ""
    THEN LET i == CHOOSE j \in 1..Len(req.files) :
                    /\ validate_file(req.files[j]) # ""
                    /\ \A k \in 1..(j - 1) : validate_file(req.files[k]) = ""
         IN  validate_file(req.files[i])
    ELSE ""

\* ------------------------------------------------------------------------
\* Workspace preparation of the two service methods
\* ------------------------------------------------------------------------
\* What tempfile created for the call: a file, a directory, or nothing yet.
NoWorkspace == [kind |-> "none", path |-> <<>>]
Workspace(kind, path) == [kind |-> kind, path |-> path]

\* Result of the synchronous part of a service call, up to the await:
\*   exc = ""  the call reached run_in_executor; otherwise the exception
\*   raised, and cause, the step that raised it.
Prep(exc, cause, fs, ws, created, files_created, cleanups) ==
    [exc |-> exc, cause |-> cause, fs |-> fs, ws |-> ws, created |-> created,
     files_created |-> files_created, cleanups |-> cleanups]

\* len(...) > settings.max_file_size, the size check of both service methods.
too_large_inclusive(content) == content >= max_file_size

too_large(content) == content > max_file_size

\* scan_code up to the await. name: the name NamedTemporaryFile drew ("" when
\* every name is taken); fail: the step at which the OS fails (0: none,
\* 1: creating the file, 2: writing it).
scan_code_prepare(req, fs, name, fail) ==
    IF too_large(req.code)
    THEN Prep("ValueError", "size", fs, NoWorkspace, {}, <<>>, 0)
    ELSE IF name = "" \/ fail = 1
    THEN Prep("OSError", "create", fs, NoWorkspace, {}, <<>>, 0)
    ELSE LET temp_file ==
                 TmpDir \o <<name \o "." \o get_file_extension(req.language)>>
             fs1 == Fs(fs.files \cup {temp_file}, fs.dirs)
         IN  IF fail = 2
             THEN Prep("OSError", "write", fs1, Workspace("file", temp_file),
                       {temp_file}, <<>>, 0)
             ELSE Prep("", "", fs1, Workspace("file", temp_file), {temp_file},
                       <<>>, 0)

\* test_rule_config up to the await: the same steps without a size check,
\* on a fixed snippet with suffix ".py".
test_rule_config_prepare(fs, name, fail) ==
    IF name = "" \/ fail = 1
    THEN Prep("OSError", "create", fs, NoWorkspace, {}, <<>>, 0)
    ELSE LET temp_file == TmpDir \o <<name \o ".py">>
             fs1 == Fs(fs.files \cup {temp_file}, fs.dirs)
         IN  Prep(IF fail = 2 THEN "OSError" ELSE "",
                  IF fail = 2 THEN "write" ELSE "", fs1,
                  Workspace("file", temp_file), {temp_file}, <<>>, 0)

\* One iteration of the loop of scan_multiple_files, for files[i] = f, from
\* the state st the iterations before it left (an iteration after a raise
\* does not run). Step 2i is the makedirs of file i, step 2i+1 its write.
materialize_one(temp_dir, f, i, st, fail) ==
    IF st.exc # "" THEN st
    ELSE IF too_large(f.content)
    THEN [st EXCEPT !.exc = "ValueError", !.cause = "size"]
    ELSE IF fail = 2 * i
    THEN [st EXCEPT !.exc = "OSError", !.cause = "makedirs"]
    ELSE LET md == makedirs(st.fs, dirname(temp_dir, f.filename))
             op == open_w(md.fs, join(temp_dir, f.filename))
         IN  IF ~md.ok
             THEN [st EXCEPT !.exc = "OSError", !.cause = "makedirs",
                             !.fs = md.fs, !.created = @ \cup md.made]
             ELSE IF ~op.ok
             THEN [st EXCEPT !.exc = "OSError", !.cause = "open",
                             !.fs = md.fs, !.created = @ \cup md.made]
             ELSE IF fail = 2 * i + 1
             THEN [st EXCEPT !.exc = "OSError", !.cause = "write",
                             !.fs = op.fs,
                             !.created = @ \cup md.made \cup {op.path}]
             ELSE [st EXCEPT !.fs = op.fs,
                             !.created = @ \cup md.made \cup {op.path},
                             !.files_created = Append(@, f.filename)]

\* The loop over files[i..], in list order.
RECURSIVE materialize(_, _, _, _, _)
materialize(temp_dir, files, i, st, fail) ==
    IF i > Len(files) THEN st
    ELSE materialize(temp_dir, files, i + 1,
                     materialize_one(temp_dir, files[i], i, st, fail), fail)

\* scan_multiple_files up to the await; a raise inside the try runs the
\* finally clause (rmtree) on the way out. fail = 1: mkdtemp fails.
scan_multiple_files_prepare(files, fs, name, fail, rm_ok) ==
    IF name = "" \/ fail = 1
    THEN Prep("OSError", "create", fs, NoWorkspace, {}, <<>>, 0)
    ELSE LET temp_dir == TmpDir \o <<name>>
             fs1 == Fs(fs.files, fs.dirs \cup {temp_dir})
             m == materialize(temp_dir, files, 1,
                              Prep("", "", fs1, Workspace("dir", temp_dir),
                                   {temp_dir}, <<>>, 0), fail)
         IN  IF m.exc = "" THEN m
             ELSE Prep(m.exc, m.cause, rmtree(m.fs, temp_dir, rm_ok), m.ws,
                       m.created, m.files_created, 1)

\* ------------------------------------------------------------------------
\* Entry points: the synchronous part of a call, up to the await
\* ------------------------------------------------------------------------
\* Outcome of the synchronous part: prep as above; http the status sent when
\* the call ends here with an HTTP error (0: no HTTP layer, or not ended);
\* exc the exception first raised ("" when the call reached the await).
Started(prep, http) == [prep |-> prep, http |-> http]

NoPrep(exc, cause, fs) == Prep(exc, cause, fs, NoWorkspace, {}, <<>>, 0)

\* except Exception as e: raise HTTPException(status_code=500, ...)
\* (HTTPException is an Exception: a 400 raised in the try is caught too.)
endpoint_except(prep) == Started(prep, IF prep.exc = "" THEN 0 ELSE 500)

\* POST /scan (main.scan_code): schema validation by the framework (422),
\* then the service inside try/except.
scan_code_endpoint(req, fs, name, fail) ==
    IF ~ScanRequestValid(req)
    THEN Started(NoPrep("RequestValidationError",
                        IF req.code > CodeMaxLength THEN "size" ELSE "schema",
                        fs), 422)
    ELSE endpoint_except(scan_code_prepare(req, fs, name, fail))

\* POST /scan/bulk (main.bulk_scan)
bulk_scan(req, fs, name, fail, rm_ok) ==
    IF BulkScanRequestError(req) # ""
    THEN Started(NoPrep("RequestValidationError", BulkScanRequestError(req),
                        fs), 422)
    ELSE IF Len(req.files) > max_files_per_request
    THEN endpoint_except(NoPrep("HTTPException(400)", "count", fs))
    ELSE endpoint_except(
             scan_multiple_files_prepare(req.files, fs, name, fail, rm_ok))

\* POST /scan/upload (main.upload_scan); file.size is the content's length.
upload_scan(req, fs, name, fail, rm_ok) ==
    IF Len(req.files) > max_files_per_request
    THEN endpoint_except(NoPrep("HTTPException(400)", "count", fs))
    ELSE IF \E i \in 1..Len(req.files) : req.files[i].content > max_file_size
    THEN endpoint_except(NoPrep("HTTPException(400)", "size", fs))
    ELSE endpoint_except(
             scan_multiple_files_prepare(req.files, fs, name, fail, rm_ok))

call(req, fs, name, fail, rm_ok) ==
    CASE req.entry = "POST /scan" -> scan_code_endpoint(req, fs, name, fail)
      [] req.entry = "POST /scan/bulk" -> bulk_scan(req, fs, name, fail, rm_ok)
      [] req.entry = "POST /scan/upload" ->
             upload_scan(req, fs, name, fail, rm_ok)
      [] req.entry = "scan_code" ->
             Started(scan_code_prepare(req, fs, name, fail), 0)
      [] req.entry \in QueryEntries -> Started(NoPrep("", "", fs), 0)
      [] req.entry = "test_rule_config" ->
             Started(test_rule_config_prepare(fs, name, fail), 0)
      [] OTHER ->
             Started(scan_multiple_files_prepare(req.files, fs, name, fail,
                                                 rm_ok), 0)

\* ------------------------------------------------------------------------
\* After the await: the finally clause and the return
\* ------------------------------------------------------------------------
scan_code_resume_no_unlink(fs, ws, fut, os_ok) ==
    [exc |-> "", fs |-> fs, result |-> fut, cleanups |-> 0]

\* [exc, fs, result, cleanups]: scan_code returns the future's result after
\* os.unlink(temp_file); an exception of unlink replaces the return.
scan_code_resume(fs, ws, fut, os_ok) ==
    LET u == unlink(fs, ws.path, os_ok)
    IN  [exc |-> IF u.ok THEN "" ELSE "OSError", fs |-> u.fs, result |-> fut,
         cleanups |-> 1]

\* A list without its repeated elements, first occurrences kept.
RECURSIVE Dedup(_)
Dedup(q) ==
    IF q = <<>> THEN <<>>
    ELSE LET d == Dedup(Front(q))
             e == q[Len(q)]
         IN  IF \E i \in 1..Len(d) : d[i] = e THEN d ELSE Append(d, e)

\* files_scanned names each file of the workspace once.
scan_multiple_files_resume_dedup(fs, ws, fut, files_created, os_ok) ==
    [exc |-> "", fs |-> rmtree(fs, ws.path, os_ok),
     result |-> [fut EXCEPT !.files_scanned = Dedup(files_created)],
     cleanups |-> 1]

\* scan_multiple_files sets files_scanned, returns, and rmtree runs.
scan_multiple_files_resume(fs, ws, fut, files_created, os_ok) ==
    [exc |-> "", fs |-> rmtree(fs, ws.path, os_ok),
     result |-> [fut EXCEPT !.files_scanned = files_created],
     cleanups |-> 1]

\* get_version and get_available_rules have no workspace and no finally.
query_resume(fs, fut) ==
    [exc |-> "", fs |-> fs, result |-> fut, cleanups |-> 0]

\* scan_code and test_rule_config share the try/finally around the await.
resume(fs, ws, fut, files_created, os_ok) ==
    IF ws.kind = "file" THEN scan_code_resume(fs, ws, fut, os_ok)
    ELSE IF ws.kind = "dir"
    THEN scan_multiple_files_resume(fs, ws, fut, files_created, os_ok)
    ELSE query_resume(fs, fut)

\* What the methods other than the scans return: get_version the tool's
\* stdout or "unknown", get_available_rules the listed rules or the fallback
\* list, test_rule_config a status "working" or "error". exc: the exception
\* its except clause caught ("" when none).
reply(entry, proc, exc) ==
    CASE entry = "get_version" ->
             IF proc.kind = "exit" THEN "stdout" ELSE "unknown"
      [] entry = "get_available_rules" ->
             IF proc.kind = "exit" /\ proc.code = 0 /\ proc.stdout.t # "empty"
             THEN "rules" ELSE "fallback"
      [] entry = "test_rule_config" ->
             IF exc = "" THEN "working" ELSE "error"
      [] OTHER -> ""

\* The status the endpoint sends once the service call has ended.
endpoint_status(entry, exc) ==
    IF entry \notin Endpoints THEN 0 ELSE IF exc = "" THEN 200 ELSE 500

\* ------------------------------------------------------------------------
\* Inputs
\* ------------------------------------------------------------------------
RelName(comps) == Filename(FALSE, comps)
AbsName(comps) == Filename(TRUE, comps)

RECURSIVE PathStr(_)
PathStr(p) == IF p = <<>> THEN "" ELSE PathStr(Front(p)) \o "/" \o p[Len(p)]

\* File items of the enumerated bulk lists.
FileItems ==
    {File(RelName(<<"a.py">>), 1),
     File(RelName(<<"a.py">>), max_file_size),
     File(RelName(<<"a.py">>), max_file_size + 1),
     File(RelName(<<"pkg", "b.py">>), max_file_size),
     File(RelName(<<"a.py", "c.py">>), 1),
     File(RelName(<<"..", "x.py">>), 1),
     File(AbsName(<<"srv", "x.py">>), 1),
     File(RelName(<<>>), 1)}

RECURSIVE SeqsUpTo(_, _)
SeqsUpTo(S, n) ==
    IF n = 0 THEN {<<>>}
    ELSE LET shorter == SeqsUpTo(S, n - 1)
         IN  shorter \cup {Append(q, e) : q \in shorter, e \in S}

\* n distinct files of the given content length.
ManyFiles(n, content) ==
    [i \in 1..n |-> File(RelName(<<"f" \o ToString(i) \o ".py">>), content)]

FileLists ==
    (SeqsUpTo(FileItems, MaxFiles) \ {<<>>})
    \cup {ManyFiles(max_files_per_request, max_file_size),
          ManyFiles(max_files_per_request + 1, 1)}

SingleRequest(entry, code, config, rules) ==
    Request(entry, code, "python", config, rules, <<>>)
BulkRequest(entry, files, config) ==
    Request(entry, 0, "", config, NoRules, files)

\* Requests of the scenario with one request at a time.
OneRequests ==
    {SingleRequest(e, c, NoneStr, NoRules) :
        e \in SingleEntries,
        c \in {1, CodeMaxLength + 1, max_file_size, max_file_size + 1}}
    \cup {SingleRequest("scan_code", 1, "p/ci", Rules(<<"r1">>)),
          SingleRequest("scan_code", 1, NoneStr, Rules(<<"r1", "r2">>))}
    \cup {BulkRequest(e, fl, NoneStr) : e \in BulkEntries, fl \in FileLists}

\* Requests of the scenario with overlapping scans.
OverlapRequests ==
    {SingleRequest("scan_code", 1, NoneStr, NoRules),
     BulkRequest("scan_multiple_files", <<File(RelName(<<"a.py">>), 1)>>,
                 NoneStr),
     BulkRequest("scan_multiple_files",
                 <<File(RelName(<<"..", "x.py">>), 1)>>, NoneStr)}

\* Requests of the scenario with more requests than pool workers: slot s
\* carries a scan, a version query, a rule-list query or a rule test.
QueryRequest(entry) == Request(entry, 0, "", NoneStr, NoRules, <<>>)

PoolRequest(s) ==
    CASE s % 4 = 1 -> SingleRequest("scan_code", 1, NoneStr, NoRules)
      [] s % 4 = 2 -> QueryRequest("get_version")
      [] s % 4 = 3 -> QueryRequest("get_available_rules")
      [] OTHER -> Request("test_rule_config", 0, "python", "p/ci", NoRules,
                          <<>>)

\* What the tool may do in the orchestration scenarios.
GoodStdout ==
    ObjectStdout({"results", "errors", "stats"}, Member(TRUE, <<"F1">>),
                 Member(TRUE, <<"e1">>), Member(TRUE, {"total"}))

OneProcs ==
    {TimeoutProc, OSErrorProc, Completed(0, GoodStdout, ""),
     Completed(1, GoodStdout, ""), Completed(0, TextStdout, ""),
     Completed(0, EmptyStdout, ""), Completed(2, EmptyStdout, "boom")}

OverlapProcs == {TimeoutProc, Completed(1, GoodStdout, "")}

PoolProcs == {Completed(0, GoodStdout, "")}

\* ------------------------------------------------------------------------
\* State
\* ------------------------------------------------------------------------
VARIABLES
    scenario,   \* "one": one request, all inputs; "overlap": NScans requests
    fs,         \* the filesystem
    scans,      \* per scan slot: the state of the call
    tr          \* one run of _run_semgrep on its own: input and output

vars == <<scenario, fs, scans, tr>>

Scans == 1..(IF NPool > NScans THEN NPool ELSE NScans)

Active ==
    CASE scenario = "one" -> {1}
      [] scenario = "overlap" -> 1..NScans
      [] scenario = "pool" -> 1..NPool
      [] OTHER -> {}
Requests == IF scenario = "one" THEN OneRequests ELSE OverlapRequests
RequestsOf(s) == IF scenario = "pool" THEN {PoolRequest(s)} ELSE Requests
Procs ==
    CASE scenario = "one" -> OneProcs
      [] scenario = "overlap" -> OverlapProcs
      [] OTHER -> PoolProcs
\* The calls whose awaiting task may be cancelled: the first one.
Cancellable == {1}
\* Whether the OS may refuse a deletion.
OsOutcomes == IF scenario = "one" THEN BOOLEAN ELSE {TRUE}
\* Steps of the workspace preparation at which the OS fails (0: none).
FailSteps == IF scenario = "one" THEN 0..MaxFailStep ELSE {0}

NoResult == ScanResult(<<>>, <<>>, {})
NoProc == Proc("none", 0, EmptyStdout, "")

\* pc: "idle" no call yet; "queued" the task is in the executor's queue;
\* "running" a pool worker runs _run_semgrep; "resolved" the future has a
\* result and the coroutine is to be resumed; "orphan" the call has ended
\* (it was cancelled at the await) and the worker still runs its task;
\* "done" the call has ended and no worker works for it.
\* on_loop, on_worker: the blocking steps the event-loop thread, respectively
\* a pool worker, has performed for the call.
IdleScan ==
    [pc |-> "idle", req |-> NoRequest, ws |-> NoWorkspace, created |-> {},
     files_created |-> <<>>, cmd |-> <<>>, proc |-> NoProc, fut |-> NoResult,
     status |-> "pending", http |-> 0, exc |-> "", cause |-> "",
     result |-> NoResult, runs |-> 0, cleanups |-> 0, cleanup_ok |-> TRUE,
     residue |-> {}, reply |-> "", on_loop |-> {}, on_worker |-> {}]

\* The translator on its own: pc "input" before the run, "output" after.
Translation(pc, target, config, rules, proc, cmd, out) ==
    [pc |-> pc, target |-> target, config |-> config, rules |-> rules,
     proc |-> proc, cmd |-> cmd, out |-> out]

NoTranslation ==
    Translation("none", "", NoneStr, NoRules, NoProc, <<>>, NoResult)

Init ==
    /\ scenario \in {"one", "overlap", "pool"}
    /\ fs = InitFs
    /\ scans = [s \in Scans |-> IdleScan]
    /\ tr = NoTranslation

\* Names tempfile can still draw for this request.
FreeNames(req) ==
    IF req.entry \in SingleEntries \cup RuleTestEntries
    THEN {n \in TmpNames :
            ~Exists(fs, TmpDir \o <<n \o "." \o get_file_extension(req.language)>>)}
    ELSE IF req.entry \in BulkEntries
    THEN {n \in TmpNames : ~Exists(fs, TmpDir \o <<n>>)}
    ELSE {}

\* The names tempfile may draw for call s: any free one, "" when every name
\* is taken; with more requests than workers each call has a name of its own.
NameChoices(s, req) ==
    IF scenario = "pool" THEN {"p" \o ToString(s)}
    ELSE IF FreeNames(req) = {} THEN {""}
    ELSE FreeNames(req)

Residue(created, fs2) == {p \in created : Exists(fs2, p)}

\* The blocking filesystem steps of the synchronous part of a call, which
\* the coroutine performs itself: creating and writing the workspace, and
\* deleting it when the preparation raised inside the try.
loop_steps(prep) ==
    (IF prep.created # {} THEN {"write"} ELSE {})
    \cup (IF prep.cleanups > 0 THEN {"delete"} ELSE {})

\* A request arrives and runs on the event loop up to its first await: it
\* ends with an error, or leaves a task in the executor's queue.
Call(s) ==
    /\ s \in Active
    /\ scans[s].pc = "idle"
    /\ \E req \in RequestsOf(s), fail \in FailSteps, rm_ok \in OsOutcomes :
       \E name \in NameChoices(s, req) :
       \E c \in {call(req, fs, name, fail, rm_ok)} :
         LET p == c.prep
             caught == p.exc # "" /\ req.entry \in NonRaisingEntries
         IN  /\ fs' = p.fs
             /\ scans' = [scans EXCEPT ![s] =
                    [@ EXCEPT !.pc = IF p.exc = "" THEN "queued" ELSE "done",
                              !.req = req,
                              !.ws = p.ws,
                              !.created = p.created,
                              !.files_created = p.files_created,
                              !.status = IF p.exc = "" THEN "pending"
                                         ELSE IF caught THEN "returned"
                                         ELSE "raised",
                              !.reply = IF caught
                                        THEN reply(req.entry, NoProc, p.exc)
                                        ELSE "",
                              !.http = c.http,
                              !.exc = p.exc,
                              !.cause = p.cause,
                              !.cleanups = p.cleanups,
                              !.on_loop = loop_steps(p),
                              !.cleanup_ok = (p.cleanups = 0 \/ rm_ok),
                              !.residue = IF p.exc = "" THEN {}
                                          ELSE Residue(p.created, p.fs)]]
    /\ UNCHANGED <<scenario, tr>>

\* A worker stays bound to its task after the process has ended.
Running_held ==
    {s \in Scans : scans[s].pc \in {"running", "orphan", "resolved", "done"}}

\* The pool workers that are inside subprocess.run.
Running == {s \in Scans : scans[s].pc \in {"running", "orphan"}}

\* A thread per task, without a limit.
PoolUnbounded == TRUE

\* ThreadPoolExecutor(max_workers=4): a queued task starts when one of the
\* max_workers threads is idle.
PoolHasFreeWorker == Cardinality(Running) < max_workers

\* The command a worker runs for the task of a call.
task_cmd(req, ws) ==
    CASE req.entry = "get_version" -> <<"semgrep", "--version">>
      [] req.entry = "get_available_rules" -> <<"semgrep", "--list-configs">>
      [] OTHER -> build_cmd(PathStr(ws.path), req.config, req.rules)

\* What the task gives the future: _run_semgrep's ScanResult; for the two
\* queries the task is _run_command itself and the caller reads the process.
task_result(req, proc) ==
    IF req.entry \in QueryEntries THEN NoResult ELSE run_semgrep(proc)

\* A free pool worker takes the task: _run_semgrep builds the command and
\* _run_command spawns the process.
WorkerStart(s) ==
    /\ scans[s].pc = "queued"
    /\ PoolHasFreeWorker
    /\ scans' = [scans EXCEPT ![s] =
           [@ EXCEPT !.pc = "running",
                     !.cmd = task_cmd(scans[s].req, scans[s].ws),
                     !.on_worker = @ \cup {"subprocess"},
                     !.runs = @ + 1]]
    /\ UNCHANGED <<scenario, fs, tr>>

\* A timed-out invocation is submitted again.
after_tool_retry(proc) ==
    IF proc.kind = "timeout" THEN "queued" ELSE "resolved"

\* Where the task goes when the tool has ended as proc: _run_semgrep has no
\* loop, each of its branches returns.
after_tool(proc) == "resolved"

\* The process ends (or is killed at the timeout); _run_semgrep returns its
\* ScanResult and the future is resolved.
ToolFinish(s) ==
    /\ scans[s].pc \in {"running", "orphan"}
    /\ \E proc \in Procs :
         scans' = [scans EXCEPT ![s] =
             [@ EXCEPT !.pc = IF scans[s].pc = "orphan" THEN "done"
                              ELSE after_tool(proc),
                       !.proc = proc,
                       !.fut = task_result(scans[s].req, proc)]]
    /\ UNCHANGED <<scenario, fs, tr>>

\* The event loop resumes the coroutine: finally clause, return or raise,
\* and the endpoint's answer.
Resume(s) ==
    /\ scans[s].pc = "resolved"
    /\ \E os_ok \in OsOutcomes :
       \E r \in {resume(fs, scans[s].ws, scans[s].fut,
                         scans[s].files_created, os_ok)} :
         LET caught == scans[s].req.entry \in NonRaisingEntries
         IN  /\ fs' = r.fs
             /\ scans' = [scans EXCEPT ![s] =
                    [@ EXCEPT !.pc = "done",
                              !.status = IF r.exc = "" \/ caught
                                         THEN "returned" ELSE "raised",
                              !.reply = reply(scans[s].req.entry,
                                              scans[s].proc, r.exc),
                              !.exc = r.exc,
                              !.cause = IF r.exc = "" THEN "" ELSE "cleanup",
                              !.http = endpoint_status(scans[s].req.entry, r.exc),
                              !.result = IF r.exc = "" THEN r.result
                                         ELSE NoResult,
                              !.cleanups = @ + r.cleanups,
                              !.on_loop = @ \cup (IF r.cleanups > 0
                                                  THEN {"delete"} ELSE {}),
                              !.cleanup_ok = os_ok,
                              !.residue = Residue(scans[s].created, r.fs)]]
    /\ UNCHANGED <<scenario, tr>>

\* The task that awaits the call is cancelled (the caller gave up, the
\* server shuts down): CancelledError is raised at the await and the finally
\* clause runs at once. A task still in the queue is cancelled with the
\* future and never starts; a task a worker has started cannot be cancelled
\* and runs to its end. An exception of the cleanup replaces CancelledError.
Cancel(s) ==
    /\ s \in Cancellable
    /\ scans[s].pc \in {"queued", "running", "resolved"}
    /\ \E os_ok \in OsOutcomes :
       \E r \in {resume(fs, scans[s].ws, scans[s].fut,
                         scans[s].files_created, os_ok)} :
         LET caught == r.exc # "" /\ scans[s].req.entry \in NonRaisingEntries
         IN  /\ fs' = r.fs
             /\ scans' = [scans EXCEPT ![s] =
                    [@ EXCEPT !.pc = IF scans[s].pc = "running" THEN "orphan"
                                     ELSE "done",
                              !.status = IF r.exc = "" THEN "cancelled"
                                         ELSE IF caught THEN "returned"
                                         ELSE "raised",
                              !.reply = IF caught
                                        THEN reply(scans[s].req.entry,
                                                   scans[s].proc, r.exc)
                                        ELSE "",
                              !.exc = IF r.exc = "" THEN "CancelledError"
                                      ELSE r.exc,
                              !.cause = IF r.exc = "" THEN "cancel"
                                        ELSE "cleanup",
                              !.http = IF r.exc = "" THEN 0
                                       ELSE endpoint_status(
                                                scans[s].req.entry, r.exc),
                              !.cleanups = @ + r.cleanups,
                              !.on_loop = @ \cup (IF r.cleanups > 0
                                                  THEN {"delete"} ELSE {}),
                              !.cleanup_ok = os_ok,
                              !.residue = Residue(scans[s].created, r.fs)]]
    /\ UNCHANGED <<scenario, tr>>

Next ==
    \E s \in Scans :
        Call(s) \/ WorkerStart(s) \/ ToolFinish(s) \/ Resume(s) \/ Cancel(s)

Spec == Init /\ [][Next]_vars

\* The same program under fair scheduling: as long as some task can move (a
\* free pool worker can take a queued task, a process can end, which
\* subprocess.run(timeout=self.timeout) enforces by killing it at the
\* timeout, or the event loop can resume a coroutine whose future is
\* resolved), one eventually does. Nothing obliges a caller to call or to
\* cancel.
Progress ==
    \E s \in Scans : WorkerStart(s) \/ ToolFinish(s) \/ Resume(s)

Fairness == WF_vars(Progress)

SpecLive == Init /\ [][Next]_vars /\ Fairness

\* ------------------------------------------------------------------------
\* The Result Translator on its own, over all its inputs
\* ------------------------------------------------------------------------
ListsOf(S) == SeqsUpTo(S, MaxList)

ResultsMembers ==
    {Member(TRUE, l) : l \in ListsOf({"F1", "F2"})} \cup {Member(FALSE, <<>>)}
ErrorsMembers ==
    {Member(TRUE, l) : l \in ListsOf({"e1"})} \cup {Member(FALSE, <<>>)}
StatsMembers == {Member(TRUE, {}), Member(TRUE, {"total"}), Member(FALSE, {})}

Stdouts ==
    {EmptyStdout, TextStdout, ScalarStdout}
    \cup {ObjectStdout(k, r, e, st) :
            k \in SUBSET {"results", "errors", "stats"},
            r \in ResultsMembers, e \in ErrorsMembers, st \in StatsMembers}

TranslateProcs ==
    {TimeoutProc, OSErrorProc}
    \cup {Completed(c, out, err) :
            c \in {0, 1, 2}, out \in Stdouts, err \in {"", "boom"}}

TranslateConfigs == {NoneStr, "", "p/ci"}
TranslateRules == {NoRules} \cup {Rules(l) : l \in ListsOf({"r1", "r2"})}

InitTranslate ==
    /\ scenario = "translate"
    /\ fs = InitFs
    /\ scans = [s \in Scans |-> IdleScan]
    /\ \E proc \in TranslateProcs, config \in TranslateConfigs,
          rules \in TranslateRules, target \in {"/tmp/t1.py", "/tmp/t1"} :
         tr = Translation("input", target, config, rules, proc, <<>>,
                          NoResult)

\* _run_semgrep(target, config, rules) with the process ending as tr.proc.
RunSemgrep ==
    /\ tr.pc = "input"
    /\ tr' = [tr EXCEPT !.pc = "output",
                        !.cmd = build_cmd(tr.target, tr.config, tr.rules),
                        !.out = run_semgrep(tr.proc)]
    /\ UNCHANGED <<scenario, fs, scans>>

NextTranslate == RunSemgrep

SpecTranslate == InitTranslate /\ [][NextTranslate]_vars

\* ------------------------------------------------------------------------
\* Properties
\* ------------------------------------------------------------------------
IsSingle(s) == scans[s].req.entry \in SingleEntries
IsBulk(s) == scans[s].req.entry \in BulkEntries
Done(s) == scans[s].pc = "done"
InFlight(s) == scans[s].pc \in {"queued", "running", "resolved"}
\* The call reached run_in_executor (its workspace was fully prepared).
Awaited(s) == InFlight(s) \/ (Done(s) /\ scans[s].runs >= 1)

ParsedProc(proc) ==
    /\ proc.kind = "exit" /\ proc.code \in {0, 1}
    /\ proc.stdout.t = "json" /\ proc.stdout.obj
    /\ proc.stdout.results.ok /\ proc.stdout.errors.ok /\ proc.stdout.stats.ok
FailedProc(proc) == proc.kind = "exit" /\ proc.code \notin {0, 1}

\* C1: a scan_code call that wrote its temporary file deletes it exactly once:
\* never before the tool has returned, once when the call has ended, and when
\* the call returns the file is gone -- whether the tool timed out, failed,
\* or gave parseable or unparseable output.
C1_SingleCleanupOnce ==
    \A s \in Scans :
        IsSingle(s) /\ Awaited(s) =>
            /\ InFlight(s) =>
                   scans[s].cleanups = 0 /\ scans[s].ws.path \in fs.files
            /\ Done(s) => scans[s].cleanups = 1
            /\ Done(s) /\ scans[s].status = "returned" =>
                   scans[s].residue = {}

\* Two scan_code calls have returned, one after a timeout and one after
\* exit code 1 with parseable output.
C1_Witness ==
    \E s, t \in Scans :
        /\ IsSingle(s) /\ IsSingle(t)
        /\ Done(s) /\ scans[s].status = "returned"
        /\ Done(t) /\ scans[t].status = "returned"
        /\ scans[s].proc.kind = "timeout"
        /\ ParsedProc(scans[t].proc) /\ scans[t].proc.code = 1

\* C2: when a call raises during workspace preparation after tempfile has
\* created its file or directory (and the OS does not refuse the deletion),
\* that file or directory no longer exists when the call raises.
C2_CleanupAfterPrepareFailure ==
    \A s \in Scans :
        /\ Done(s) /\ scans[s].runs = 0
        /\ scans[s].ws.kind # "none" /\ scans[s].cleanup_ok
        => scans[s].ws.path \notin scans[s].residue

\* C3: a bulk scan whose filenames the request validation accepts writes
\* only below its own temporary directory, and (the OS not refusing the
\* deletion) nothing it wrote exists once the call has ended.
C3_BulkFilesInsideWorkspace ==
    \A s \in Scans :
        /\ IsBulk(s) /\ scans[s].ws.kind = "dir"
        /\ BulkScanRequestError(scans[s].req) = ""
        => /\ \A p \in scans[s].created : IsPrefix(scans[s].ws.path, p)
           /\ Done(s) /\ scans[s].cleanup_ok => scans[s].residue = {}

\* Paths a scan has written, scans or will delete.
Touched(s) ==
    scans[s].created
    \cup {p \in fs.files \cup fs.dirs : IsPrefix(scans[s].ws.path, p)}

\* C4: two in-flight scans never touch a common path.
C4_WorkspacesDisjoint ==
    \A s, t \in Scans :
        s # t /\ InFlight(s) /\ InFlight(t) => Touched(s) \cap Touched(t) = {}

\* C5: a bulk request with more files than max_files_per_request is rejected
\* for its count and the Process Runner is never invoked for it.
C5_TooManyFilesNeverRun ==
    \A s \in Scans :
        IsBulk(s) /\ Len(scans[s].req.files) > max_files_per_request =>
            /\ scans[s].runs = 0
            /\ Done(s) => scans[s].status = "raised"

\* C6: a validation failure (size or count) raised behind an endpoint reaches
\* the caller with a 4xx status.
C6_ValidationIsClientError ==
    \A s \in Scans :
        /\ Done(s) /\ scans[s].req.entry \in Endpoints
        /\ scans[s].status = "raised" /\ scans[s].cause \in {"size", "count"}
        => scans[s].http >= 400 /\ scans[s].http <= 499

RECURSIVE TotalContent(_)
TotalContent(files) ==
    IF files = <<>> THEN 0 ELSE files[1].content + TotalContent(Tail(files))

AllWithinLimit(files) ==
    \A i \in 1..Len(files) : files[i].content <= max_file_size

\* C7: the size limit of a bulk scan is per file: a request whose files are
\* all at most max_file_size long is never rejected for size, whatever their
\* sum; a request with a file of max_file_size + 1 or more is rejected
\* before any process is spawned.
C7_PerFileLimit ==
    \A s \in Scans :
        IsBulk(s) =>
            /\ AllWithinLimit(scans[s].req.files) =>
                   ~(scans[s].status = "raised" /\ scans[s].cause = "size")
            /\ ~AllWithinLimit(scans[s].req.files) =>
                   /\ Done(s) /\ scans[s].status = "raised"
                   /\ scans[s].runs = 0

\* A bulk scan of files of exactly max_file_size each, more than
\* max_file_size together, has returned its outcome.
C7_Witness ==
    \E s \in Scans :
        /\ IsBulk(s) /\ Done(s) /\ scans[s].status = "returned"
        /\ scans[s].runs = 1
        /\ \A i \in 1..Len(scans[s].req.files) :
               scans[s].req.files[i].content = max_file_size
        /\ TotalContent(scans[s].req.files) > max_file_size

\* C8: a call that reached the subprocess invocation returns an outcome and
\* never raises, also when deleting the workspace fails.
C8_AlwaysReturnsAfterInvocation ==
    \A s \in Scans :
        Done(s) /\ scans[s].runs >= 1 /\ scans[s].cause # "cancel" =>
            scans[s].status = "returned"

\* C9: on a timeout the outcome has no findings, no stats and the single
\* error naming the configured timeout; a failing exit code gives another
\* error.
C9_TimeoutOutcome ==
    tr.pc = "output" =>
        /\ tr.proc.kind = "timeout" =>
               /\ tr.out.findings = <<>>
               /\ tr.out.stats = {}
               /\ tr.out.errors =
                      <<"Scan timeout after " \o ToString(semgrep_timeout)
                        \o " seconds">>
        /\ FailedProc(tr.proc) =>
               /\ Len(tr.out.errors) = 1
               /\ tr.out.errors # <<"Scan timeout after 300 seconds">>

C9_Witness == tr.pc = "output" /\ tr.proc.kind = "timeout"

\* The outcome is exactly what the parsed document holds.
OutcomeIsParsed(out, stdout) ==
    /\ "results" \in stdout.keys => out.findings = stdout.results.v
    /\ "errors" \in stdout.keys => out.errors = stdout.errors.v
    /\ "stats" \in stdout.keys => out.stats = stdout.stats.v

OneParseError(out) ==
    /\ out.findings = <<>> /\ out.stats = {}
    /\ out.errors = <<"Failed to parse JSON output">>

\* C10 as stated: with exit code 0 or 1, parsed output is passed through and
\* any output that is not JSON, empty output included, gives exactly one
\* parse-failure error.
C10_AsStated ==
    tr.pc = "output" /\ tr.proc.kind = "exit" /\ tr.proc.code \in {0, 1} =>
        /\ ParsedProc(tr.proc) => OutcomeIsParsed(tr.out, tr.proc.stdout)
        /\ tr.proc.stdout.t \in {"text", "empty"} => OneParseError(tr.out)

\* C10 amended: with exit code 0 or 1, parsed output is passed through;
\* non-empty output that is not JSON gives exactly one parse-failure error;
\* empty output gives an outcome with no findings, no errors and no stats.
C10_ExitZeroOne ==
    tr.pc = "output" /\ tr.proc.kind = "exit" /\ tr.proc.code \in {0, 1} =>
        /\ ParsedProc(tr.proc) => OutcomeIsParsed(tr.out, tr.proc.stdout)
        /\ tr.proc.stdout.t = "text" => OneParseError(tr.out)
        /\ tr.proc.stdout.t = "empty" =>
               /\ tr.out.findings = <<>> /\ tr.out.stats = {}
               /\ tr.out.errors = <<>>

\* Exit code 1 with parsed findings and parsed errors, both non-empty.
C10_Witness ==
    /\ tr.pc = "output" /\ ParsedProc(tr.proc) /\ tr.proc.code = 1
    /\ tr.proc.stdout.keys = {"results", "errors", "stats"}
    /\ tr.out.findings # <<>> /\ tr.out.errors # <<>>

\* An exception is raised inside _run_semgrep while it runs the tool or reads
\* its output: TimeoutExpired or an OSError of subprocess.run, JSONDecodeError,
\* AttributeError of .get on a document that is no object, ValidationError of
\* ScanResult on an ill-typed member.
RaisedIn(proc) ==
    \/ proc.kind \in {"timeout", "oserror"}
    \/ /\ proc.kind = "exit" /\ proc.code \in {0, 1}
       /\ \/ proc.stdout.t = "text"
          \/ proc.stdout.t = "json" /\ ~ParsedProc(proc)

\* str(e) of that exception.
exception_message(proc) ==
    IF proc.kind = "timeout"
    THEN "Command 'semgrep' timed out after " \o ToString(semgrep_timeout)
         \o " seconds"
    ELSE IF proc.kind = "oserror" THEN proc.stderr
    ELSE IF proc.stdout.t = "text"
    THEN "Expecting value: line 1 column 1 (char 0)"
    ELSE IF ~proc.stdout.obj THEN "object has no attribute 'get'"
    ELSE "validation error for ScanResult"

ErrorPrefixes == {"", "Semgrep error: ", "Execution error: ", "Scan timeout: "}

Embeds(errors, msg) ==
    Len(errors) = 1 /\ \E pfx \in ErrorPrefixes : errors[1] = pfx \o msg

\* C11 as stated: for every exit code other than 0 and 1 and for every
\* exception raised while running the tool or reading its output, the
\* translator returns an outcome with no findings, no stats and exactly one
\* error string, which embeds stderr, respectively the exception's message.
C11_AsStated ==
    tr.pc = "output" =>
        /\ FailedProc(tr.proc) =>
               /\ tr.out.findings = <<>> /\ tr.out.stats = {}
               /\ Embeds(tr.out.errors, tr.proc.stderr)
        /\ RaisedIn(tr.proc) =>
               /\ tr.out.findings = <<>> /\ tr.out.stats = {}
               /\ Embeds(tr.out.errors, exception_message(tr.proc))

\* C11 amended: in all these cases the translator returns an outcome with no
\* findings, no stats and exactly one error string: "Semgrep error: <stderr>"
\* for another exit code, the fixed timeout string on TimeoutExpired, the
\* fixed string "Failed to parse JSON output" on JSONDecodeError, and
\* "Execution error: <message>" for every other exception.
C11_NeverRaises ==
    tr.pc = "output" /\ (FailedProc(tr.proc) \/ RaisedIn(tr.proc)) =>
        /\ tr.out.findings = <<>> /\ tr.out.stats = {}
        /\ Len(tr.out.errors) = 1
        /\ tr.out.errors[1] =
               (IF FailedProc(tr.proc)
                THEN "Semgrep error: " \o tr.proc.stderr
                ELSE IF tr.proc.kind = "timeout"
                THEN "Scan timeout after " \o ToString(semgrep_timeout)
                     \o " seconds"
                ELSE IF tr.proc.kind = "exit" /\ tr.proc.stdout.t = "text"
                THEN "Failed to parse JSON output"
                ELSE "Execution error: " \o exception_message(tr.proc))

\* Exit code 1 with a JSON object whose "results" member is ill-typed: the
\* ValidationError was absorbed into one error string.
C11_Witness ==
    /\ tr.pc = "output" /\ tr.proc.kind = "exit" /\ tr.proc.code = 1
    /\ tr.proc.stdout.obj /\ ~tr.proc.stdout.results.ok
    /\ tr.out.errors = <<"Execution error: validation error for ScanResult">>

\* The values that follow a "--config" in an argument list, in order.
RECURSIVE ConfigValues(_)
ConfigValues(cmd) ==
    IF Len(cmd) < 2 THEN <<>>
    ELSE IF cmd[1] = "--config"
    THEN <<cmd[2]>> \o ConfigValues(SubSeq(cmd, 3, Len(cmd)))
    ELSE ConfigValues(Tail(cmd))

\* C12: the invocation's rule sources follow strict precedence: a non-empty
\* config gives exactly one "--config <config>" and nothing from the rule
\* list; otherwise a non-empty rule list gives one "--config <rule>" per
\* element in list order; otherwise exactly one "--config auto". The target
\* is the last argument and there is at least one "--config".
C12_RuleSourcePrecedence ==
    tr.pc = "output" =>
        /\ tr.cmd[Len(tr.cmd)] = tr.target
        /\ SubSeq(tr.cmd, 1, 4) =
               <<"semgrep", "--json", "--no-git-ignore", "--quiet">>
        /\ Len(tr.cmd) = 5 + 2 * Len(ConfigValues(tr.cmd))
        /\ Len(ConfigValues(tr.cmd)) >= 1
        /\ ConfigValues(tr.cmd) =
               (IF Truthy(tr.config) THEN <<tr.config>>
                ELSE IF tr.rules.list # <<>> THEN tr.rules.list
                ELSE <<"auto">>)

\* Both a config and a list of two rules were given; the command names the
\* config only.
C12_Witness ==
    /\ tr.pc = "output" /\ tr.config = "p/ci"
    /\ tr.rules = Rules(<<"r1", "r2">>)
    /\ tr.cmd = <<"semgrep", "--json", "--no-git-ignore", "--quiet",
                  "--config", "p/ci", tr.target>>

\* C13: in every interleaving of overlapping requests (scans, version
\* queries, rule-list queries, rule tests) at most max_workers tool processes
\* run at any moment, and a queued task starts its process only in a state
\* where fewer than max_workers processes run.
C13_AtMostFourProcesses ==
    /\ [](Cardinality(Running) <= max_workers)
    /\ [][\A s \in Scans :
              scans[s].pc = "queued" /\ scans'[s].pc = "running" =>
                  Cardinality(Running) < max_workers]_vars

\* Four processes run, of four different kinds of request, and a fifth
\* request waits in the queue.
C13_Witness ==
    /\ Cardinality(Running) = max_workers
    /\ {scans[s].req.entry : s \in Running} =
           {"scan_code", "get_version", "get_available_rules",
            "test_rule_config"}
    /\ \E s \in Scans : scans[s].pc = "queued"

InputFilenames(files) == [i \in 1..Len(files) |-> files[i].filename]

\* C14: every outcome a bulk scan returns has files_scanned equal to the
\* input filenames in input order, whatever the tool did, also when two
\* input items carry the same filename.
C14_FilesScannedIsInput ==
    \A s \in Scans :
        IsBulk(s) /\ Done(s) /\ scans[s].status = "returned" =>
            scans[s].result.files_scanned = InputFilenames(scans[s].req.files)

\* A bulk scan of two items with the same filename has returned after a
\* timeout of the tool.
C14_Witness ==
    \E s \in Scans :
        /\ IsBulk(s) /\ Done(s) /\ scans[s].status = "returned"
        /\ Len(scans[s].req.files) = 2
        /\ scans[s].req.files[1].filename = scans[s].req.files[2].filename
        /\ scans[s].proc.kind = "timeout"
        /\ Len(scans[s].result.files_scanned) = 2

IsScan(s) == IsSingle(s) \/ IsBulk(s)

\* The call was rejected by a validation: of the request schema, of the
\* size or of the file count.
ValidationFailed(s) ==
    /\ Done(s) /\ scans[s].status = "raised"
    /\ scans[s].cause \in {"size", "count", "schema", "name"}

\* C15: a scan call invokes the Process Runner at most once: never when a
\* validation rejected it, exactly once when it has returned an outcome, and
\* a timed-out or failed invocation is not run again by the service or by
\* the endpoint.
C15_NoRetries ==
    \A s \in Scans :
        IsScan(s) =>
            /\ scans[s].runs <= 1
            /\ ValidationFailed(s) => scans[s].runs = 0
            /\ Done(s) /\ scans[s].status = "returned" => scans[s].runs = 1
            /\ scans[s].proc.kind = "timeout" \/ FailedProc(scans[s].proc) =>
                   scans[s].runs = 1 /\ scans[s].pc # "queued"

\* POST /scan has answered 200 after one invocation that timed out.
C15_Witness ==
    \E s \in Scans :
        /\ scans[s].req.entry = "POST /scan" /\ Done(s)
        /\ scans[s].http = 200 /\ scans[s].proc.kind = "timeout"
        /\ scans[s].runs = 1

\* C16: no blocking filesystem step of a scan (writing the snippet or the
\* bulk files, deleting the workspace) is performed by the event-loop
\* thread; like the subprocess, they run on a pool worker.
C16_BlockingWorkOffLoop ==
    \A s \in Scans : IsScan(s) => scans[s].on_loop = {}

\* The call of a scan has ended and no worker works for it; when its task
\* had reached the pool, its cleanup has run, once.
Settled(s) ==
    /\ ~InFlight(s) /\ scans[s].pc # "orphan"
    /\ scans[s].ws.kind # "none" /\ (scans[s].runs >= 1
                                     \/ scans[s].cause = "cancel") =>
           scans[s].cleanups = 1

\* C17: under fair scheduling every scan whose task reached the worker pool
\* eventually ends, after its cleanup: a queued scan obtains a worker, a
\* running one releases it, and the call returns or raises. (A call is made
\* at most once per slot, so "each scan in flight eventually ends" is
\* "eventually no scan is in flight any more".)
C17_EventuallyDone == <>[](\A s \in Scans : Settled(s))

\* More requests than workers, and every one of them has ended after its
\* invocation.
C17_Witness ==
    /\ scenario = "pool"
    /\ \A s \in 1..NPool : Done(s) /\ scans[s].runs = 1
    /\ NPool > max_workers

\* The tool runs for the scan.
ToolRunning(s) == scans[s].pc \in {"running", "orphan"}

\* C18: while the tool runs for a scan, the scan's workspace has not been
\* deleted, also when the awaiting call is cancelled while its invocation
\* is queued or in flight; a cancelled queued invocation never starts.
C18_WorkspaceOutlivesInvocation ==
    \A s \in Scans :
        ToolRunning(s) /\ scans[s].ws.kind # "none" =>
            Exists(fs, scans[s].ws.path)
====
